---- MODULE Spec2Model ----
(***************************************************************************)
(* Terminal Snake (src/hello_rust/src/main.rs): the Game struct, its       *)
(* update / spawn_food / generate_level methods and the driver loop of     *)
(* main, as a state machine.                                               *)
(*                                                                         *)
(* The random draws of rand::thread_rng are existential choices over the   *)
(* ranges the code passes to gen_range / gen_bool.  update is followed     *)
(* through its calls: pc is the position inside update ("main" when the    *)
(* driver loop is between calls), so the retry loop of spawn_food and the  *)
(* segment loop of generate_level are steps that nothing else interleaves  *)
(* with.                                                                   *)
(***************************************************************************)
EXTENDS Integers, Sequences, FiniteSets

(* ------------------------------ bounds ------------------------------- *)
\* Game::new(width, height) of the played board (main passes 40 x 20).
BoardW == 6
BoardH == 5
\* width of the board of SpecWide, on which a second level up fits
WideW == 7
\* update is not called any more once the score has reached MaxScore.
MaxScore == 11
\* since_gen counts the update calls after a regeneration up to MaxTicks.
MaxTicks == 3
\* Game::new(width, height) of the board generate_level is run on in SpecGen.
GenW == 14
GenH == 5

(* ------------------------- program constants ------------------------- *)
\* Point.x, Point.y : u16
U16 == 65536
\* if self.score % 5 == 0
LevelEvery == 5
\* the Manhattan distance a new obstacle keeps from the head (> 3)
HeadBuffer == 3

VARIABLES
    width, height,      \* Game.width, Game.height
    snake,              \* Game.snake: sequence of points, head first
    food,               \* Game.food
    obstacles,          \* Game.obstacles
    direction,          \* Game.direction
    score,              \* Game.score
    level,              \* Game.level
    game_over,          \* Game.game_over
    pc,                 \* position of the control flow (main loop / inside update)
    gen_i,              \* generate_level: segments of the for loop done so far
    regens,             \* history: number of generate_level calls
    since_gen,          \* history: update calls on a live game since the last
                        \* generate_level, MaxTicks if more or if none has run
    lastOp,             \* history: the operation the driver ran last
    lastKey             \* history: direction requested by that operation, if a key

vars == <<width, height, snake, food, obstacles, direction, score, level,
          game_over, pc, gen_i, regens, since_gen, lastOp, lastKey>>

gameFields == <<snake, food, obstacles, direction, score, level, game_over>>

Directions == {"Up", "Down", "Left", "Right"}

Point(px, py) == [x |-> px, y |-> py]

Cells(s) == {s[i] : i \in 1..Len(s)}

Abs(n) == IF n < 0 THEN -n ELSE n

(* --------------------------- Game::update ---------------------------- *)
\* u16::wrapping_sub(1)
WrappingSub1(n) == (n + U16 - 1) % U16

\* mutant: the arms of Up and Down are exchanged
NewHeadUpDownSwapped(head, dir) ==
    CASE dir = "Down"  -> Point(head.x, WrappingSub1(head.y))
      [] dir = "Up"    -> Point(head.x, head.y + 1)
      [] dir = "Left"  -> Point(WrappingSub1(head.x), head.y)
      [] dir = "Right" -> Point(head.x + 1, head.y)

\* the match on self.direction: head translated one step
NewHead(head, dir) ==
    CASE dir = "Up"    -> Point(head.x, WrappingSub1(head.y))
      [] dir = "Down"  -> Point(head.x, head.y + 1)
      [] dir = "Left"  -> Point(WrappingSub1(head.x), head.y)
      [] dir = "Right" -> Point(head.x + 1, head.y)

\* mutant: the far walls are tested with > instead of >=
WallHitOffByOne(p, w, h) ==
    p.x = 0 \/ p.x > w - 1 \/ p.y = 0 \/ p.y > h - 1

\* wall collision check
WallHit(p, w, h) ==
    p.x = 0 \/ p.x >= w - 1 \/ p.y = 0 \/ p.y >= h - 1

\* mutant: the self collision check is gone
SelfHitNever(p, s) == FALSE

\* mutant: the tail, which is about to move away, is not looked at
SelfHitIgnoresTail(p, s) == p \in {s[i] : i \in 1..(Len(s) - 1)}

\* self collision check: self.snake.contains(&new_head)
SelfHit(p, s) == p \in Cells(s)

\* mutant: the obstacle collision check is gone
ObstacleHitNever(p, obs) == FALSE

\* obstacle collision check: self.obstacles.contains(&new_head)
ObstacleHit(p, obs) == p \in obs

\* mutant: update runs on a finished game too
EarlyReturnNever(go) == FALSE

\* if self.game_over { return; }
EarlyReturn(go) == go

\* mutant: the tail is removed on every tick
AteFoodNever(p, f) == FALSE

\* if new_head == self.food
AteFood(p, f) == p = f

\* self.snake.push_front(new_head)
PushFront(s, p) == <<p>> \o s

\* mutant: the tail is never removed
PopBackNone(s) == s

\* self.snake.pop_back()
PopBack(s) == SubSeq(s, 1, Len(s) - 1)

\* mutant: level up on every food
LevelUpDueAlways(sc) == TRUE

\* if self.score % 5 == 0
LevelUpDue(sc) == sc % LevelEvery = 0

(* ------------------------- Game::spawn_food -------------------------- *)
\* mutant: the ranges start at 2, as those of generate_level do
SpawnRangeFromTwo(w, h) == {Point(px, py) : px \in 2..(w - 2), py \in 2..(h - 2)}

\* rng.gen_range(1..self.width - 1), rng.gen_range(1..self.height - 1)
SpawnRange(w, h) == {Point(px, py) : px \in 1..(w - 2), py \in 1..(h - 2)}

\* mutant: only the snake is avoided
SpawnAcceptsSnakeOnly(p, s, obs) == p \notin Cells(s)

\* !self.snake.contains(&point) && !self.obstacles.contains(&point)
SpawnAccepts(p, s, obs) == p \notin Cells(s) /\ p \notin obs

(* ----------------------- Game::generate_level ------------------------ *)
\* let num_obstacles = self.level * 3 + 5
NumObstacles(lv) == lv * 3 + 5

\* mutant: rng.gen_range(3..9)
SegLengthsLonger == 3..8

\* rng.gen_range(3..8)
SegLengths == 3..7

\* rng.gen_range(2..self.width - 2), rng.gen_range(2..self.height - 2)
SegStarts(w, h) == {Point(px, py) : px \in 2..(w - 3), py \in 2..(h - 3)}

\* the points of one wall: for i in 0..length
SegmentPoints(is_horizontal, length, start) ==
    {IF is_horizontal THEN Point(start.x + i, start.y)
                      ELSE Point(start.x, start.y + i) : i \in 0..(length - 1)}

\* mutant: the far border is not excluded
InBoundsNoFarWall(p, w, h) == p.x > 0 /\ p.y > 0

\* p.x > 0 && p.x < self.width - 1 && p.y > 0 && p.y < self.height - 1
InBounds(p, w, h) == p.x > 0 /\ p.x < w - 1 /\ p.y > 0 /\ p.y < h - 1

\* mutant: a cell at distance 3 passes
FarFromHeadOffByOne(p, s) ==
    Abs(Head(s).x - p.x) + Abs(Head(s).y - p.y) >= HeadBuffer

\* the closure over head: |head.x - p.x| + |head.y - p.y| > 3  (the snake is
\* never empty, so map_or's default is not taken)
FarFromHead(p, s) ==
    Abs(Head(s).x - p.x) + Abs(Head(s).y - p.y) > HeadBuffer

\* mutant: the food cell is not excluded
AcceptIgnoresFood(p, w, h, s, f) ==
    /\ InBounds(p, w, h)
    /\ p \notin Cells(s)
    /\ FarFromHead(p, s)

\* mutant: the snake cells are not excluded
AcceptIgnoresSnake(p, w, h, s, f) ==
    /\ InBounds(p, w, h)
    /\ p # f
    /\ FarFromHead(p, s)

\* the whole condition guarding self.obstacles.insert(p)
Accept(p, w, h, s, f) ==
    /\ InBounds(p, w, h)
    /\ p \notin Cells(s)
    /\ p # f
    /\ FarFromHead(p, s)

(* ------------------------------ Game::new ---------------------------- *)
InitialSnake(w, h) ==
    <<Point(w \div 2, h \div 2),
      Point((w \div 2) - 1, h \div 2),
      Point((w \div 2) - 2, h \div 2)>>

\* the state main holds after Game::new(width, height), spawn_food included
Init ==
    /\ width = BoardW
    /\ height = BoardH
    /\ snake = InitialSnake(BoardW, BoardH)
    /\ obstacles = {}
    /\ food \in {p \in SpawnRange(BoardW, BoardH) :
                    SpawnAccepts(p, InitialSnake(BoardW, BoardH), {})}
    /\ direction = "Right"
    /\ score = 0
    /\ level = 1
    /\ game_over = FALSE
    /\ pc = "main"
    /\ gen_i = 0
    /\ regens = 0
    /\ since_gen = MaxTicks
    /\ lastOp = "new"
    /\ lastKey = "None"

(* ------------------------------ actions ------------------------------ *)
\* mutant: the new head is pushed before the collision checks
UpdateCommitsFirst ==
    /\ pc = "main"
    /\ score < MaxScore
    /\ lastOp' = "update"
    /\ lastKey' = "None"
    /\ UNCHANGED <<width, height, food, obstacles, direction, level, gen_i, regens>>
    /\ since_gen' = IF EarlyReturn(game_over) \/ since_gen >= MaxTicks
                     THEN since_gen ELSE since_gen + 1
    /\ IF EarlyReturn(game_over)
       THEN UNCHANGED <<snake, score, game_over, pc>>
       ELSE LET new_head == NewHead(Head(snake), direction) IN
            IF \/ WallHit(new_head, width, height)
               \/ SelfHit(new_head, snake)
               \/ ObstacleHit(new_head, obstacles)
            THEN /\ game_over' = TRUE
                 /\ snake' = PushFront(snake, new_head)
                 /\ UNCHANGED <<score, pc>>
            ELSE /\ game_over' = game_over
                 /\ IF AteFood(new_head, food)
                    THEN /\ snake' = PushFront(snake, new_head)
                         /\ score' = score + 1
                         /\ pc' = "spawn_food"
                    ELSE /\ snake' = PopBack(PushFront(snake, new_head))
                         /\ UNCHANGED <<score, pc>>

\* game.update(), from its entry to the return or to the call of spawn_food
Update ==
    /\ pc = "main"
    /\ score < MaxScore
    /\ lastOp' = "update"
    /\ lastKey' = "None"
    /\ UNCHANGED <<width, height, food, obstacles, direction, level, gen_i, regens>>
    /\ since_gen' = IF EarlyReturn(game_over) \/ since_gen >= MaxTicks
                     THEN since_gen ELSE since_gen + 1
    /\ IF EarlyReturn(game_over)
       THEN UNCHANGED <<snake, score, game_over, pc>>
       ELSE LET new_head == NewHead(Head(snake), direction) IN
            IF \/ WallHit(new_head, width, height)
               \/ SelfHit(new_head, snake)
               \/ ObstacleHit(new_head, obstacles)
            THEN /\ game_over' = TRUE
                 /\ UNCHANGED <<snake, score, pc>>
            ELSE /\ game_over' = game_over
                 /\ IF AteFood(new_head, food)
                    THEN /\ snake' = PushFront(snake, new_head)
                         /\ score' = score + 1
                         /\ pc' = "spawn_food"
                    ELSE /\ snake' = PopBack(PushFront(snake, new_head))
                         /\ UNCHANGED <<score, pc>>

\* one round of the loop of spawn_food, called from update
SpawnFood ==
    /\ pc = "spawn_food"
    /\ \E point \in SpawnRange(width, height) :
          IF SpawnAccepts(point, snake, obstacles)
          THEN /\ food' = point
               /\ pc' = "level_check"
          ELSE UNCHANGED <<food, pc>>
    /\ UNCHANGED <<width, height, snake, obstacles, direction, score, level,
                   game_over, gen_i, regens, since_gen, lastOp, lastKey>>

\* mutant: generate_level does not clear the old obstacles
LevelUpCheckKeepsObstacles ==
    /\ pc = "level_check"
    /\ IF LevelUpDue(score)
       THEN /\ level' = level + 1
            /\ obstacles' = obstacles
            /\ gen_i' = 0
            /\ regens' = regens + 1
            /\ since_gen' = 0
            /\ pc' = "generate_level"
       ELSE /\ pc' = "main"
            /\ UNCHANGED <<level, obstacles, gen_i, regens, since_gen>>
    /\ UNCHANGED <<width, height, snake, food, direction, score, game_over,
                   lastOp, lastKey>>

\* the level up check of update and the entry of generate_level
LevelUpCheck ==
    /\ pc = "level_check"
    /\ IF LevelUpDue(score)
       THEN /\ level' = level + 1
            /\ obstacles' = {}
            /\ gen_i' = 0
            /\ regens' = regens + 1
            /\ since_gen' = 0
            /\ pc' = "generate_level"
       ELSE /\ pc' = "main"
            /\ UNCHANGED <<level, obstacles, gen_i, regens, since_gen>>
    /\ UNCHANGED <<width, height, snake, food, direction, score, game_over,
                   lastOp, lastKey>>

\* one round of the for loop of generate_level; the last round returns
GenerateSegment ==
    /\ pc = "generate_level"
    /\ gen_i < NumObstacles(level)
    /\ \E is_horizontal \in BOOLEAN, length \in SegLengths,
          start \in SegStarts(width, height) :
          obstacles' = obstacles \cup
              {p \in SegmentPoints(is_horizontal, length, start) :
                  Accept(p, width, height, snake, food)}
    /\ gen_i' = gen_i + 1
    /\ pc' = IF gen_i + 1 = NumObstacles(level) THEN "main" ELSE pc
    /\ UNCHANGED <<width, height, snake, food, direction, score, level,
                   game_over, regens, since_gen, lastOp, lastKey>>

\* the direction a key may not replace (the four arms of the match in main)
Blocked(d) ==
    CASE d = "Left"  -> "Right"
      [] d = "Right" -> "Left"
      [] d = "Up"    -> "Down"
      [] d = "Down"  -> "Up"

\* mutant: any key is taken
SetDirectionAlways(cur, d) == d

\* the arm of key d: if game.direction != Blocked { game.direction = d }
SetDirection(cur, d) == IF cur # Blocked(d) THEN d ELSE cur

\* main: the first poll of the loop read a direction key
KeyPress ==
    /\ pc = "main"
    /\ \E d \in Directions :
          /\ direction' = SetDirection(direction, d)
          /\ lastKey' = d
    /\ lastOp' = "key"
    /\ UNCHANGED <<width, height, snake, food, obstacles, score, level,
                   game_over, pc, gen_i, regens, since_gen>>

\* main: the poll of the game over branch read a key that is not a quit key
GameOverPoll ==
    /\ pc = "main"
    /\ game_over
    /\ lastOp' = "poll"
    /\ lastKey' = "None"
    /\ UNCHANGED <<width, height, snake, food, obstacles, direction, score,
                   level, game_over, pc, gen_i, regens, since_gen>>

\* main: q, Esc or Ctrl+C breaks the loop
Quit ==
    /\ pc = "main"
    /\ pc' = "exit"
    /\ lastOp' = "quit"
    /\ lastKey' = "None"
    /\ UNCHANGED <<width, height, snake, food, obstacles, direction, score,
                   level, game_over, gen_i, regens, since_gen>>

Next ==
    \/ Update
    \/ SpawnFood
    \/ LevelUpCheck
    \/ GenerateSegment
    \/ KeyPress
    \/ GameOverPoll
    \/ Quit

Spec == Init /\ [][Next]_vars

\* spawn_food draws its cells at random: a cell that stays acceptable is drawn
\* in the end, so the round that accepts is taken if it stays possible
SpecFair == Spec /\ WF_vars(SpawnFood)

\* the state main holds after Game::new(WideW, BoardH)
InitWide ==
    /\ width = WideW
    /\ height = BoardH
    /\ snake = InitialSnake(WideW, BoardH)
    /\ obstacles = {}
    /\ food \in {p \in SpawnRange(WideW, BoardH) :
                    SpawnAccepts(p, InitialSnake(WideW, BoardH), {})}
    /\ direction = "Right"
    /\ score = 0
    /\ level = 1
    /\ game_over = FALSE
    /\ pc = "main"
    /\ gen_i = 0
    /\ regens = 0
    /\ since_gen = MaxTicks
    /\ lastOp = "new"
    /\ lastKey = "None"

SpecWide == InitWide /\ [][Next]_vars

(* --------------- generate_level as a function of its inputs ---------- *)
\* The state at the entry of generate_level on a GenW x GenH board in a game
\* that went like this: from Game::new the snake turned down to the bottom
\* row and then left along it, ate its fifth food on the cell next to the
\* left wall, and spawn_food put the new food in the rightmost column.  The
\* snake then lies straight in the bottom row, head first from x = 1.
BottomRowSnake(n) == [i \in 1..n |-> Point(i, GenH - 2)]

InitGen ==
    /\ width = GenW
    /\ height = GenH
    /\ snake = BottomRowSnake(3 + LevelEvery)
    /\ obstacles = {}
    /\ food \in {p \in SpawnRange(GenW, GenH) :
                    /\ SpawnAccepts(p, snake, {})
                    /\ p.x = GenW - 2}
    /\ direction = "Left"
    /\ score = LevelEvery
    /\ level = 2
    /\ game_over = FALSE
    /\ pc = "generate_level"
    /\ gen_i = 0
    /\ regens = 1
    /\ since_gen = 0
    /\ lastOp = "update"
    /\ lastKey = "None"

SpecGen == InitGen /\ [][GenerateSegment]_vars

(* ======================= the claims, C1 onwards ====================== *)
\* the unit step of a direction on the grid (x to the right, y downwards)
Delta(d) ==
    CASE d = "Up"    -> Point(0, -1)
      [] d = "Down"  -> Point(0, 1)
      [] d = "Left"  -> Point(-1, 0)
      [] d = "Right" -> Point(1, 0)

Translate(p, d) == Point(p.x + Delta(d).x, p.y + Delta(d).y)

Opposite(d) ==
    CHOOSE e \in Directions :
        Delta(e).x = -Delta(d).x /\ Delta(e).y = -Delta(d).y

OnBorder(p) ==
    p.x = 0 \/ p.x = width - 1 \/ p.y = 0 \/ p.y = height - 1

Interior(p) ==
    1 <= p.x /\ p.x <= width - 2 /\ 1 <= p.y /\ p.y <= height - 2

\* a step of the driver that calls update on a game that is still alive
AdvanceAlive == pc = "main" /\ ~game_over /\ lastOp' = "update"

\* C1: advance() on an alive game ends the game if and only if the new head
\* (the head translated one step in the current direction) lies on the outer
\* border, is a cell of the snake or is an obstacle; in every other case the
\* game stays alive and the new head becomes the front of the snake.
C1_CollisionIffFatal ==
    [][AdvanceAlive =>
        LET nh == Translate(Head(snake), direction) IN
        /\ game_over' <=> (OnBorder(nh) \/ nh \in Cells(snake) \/ nh \in obstacles)
        /\ ~game_over' => Head(snake') = nh]_vars

\* C1 witness: the game was ended by update with an obstacle right in front of
\* the head, which is neither a wall nor a snake cell.
C1_Witness ==
    /\ game_over
    /\ lastOp = "update"
    /\ Translate(Head(snake), direction) \in obstacles

\* C2: once the game is over it stays over, and a further advance() leaves
\* snake, food, obstacles, direction, score, level and the flag unchanged.
C2_TerminalIdempotence ==
    [][/\ game_over => game_over'
       /\ (game_over /\ pc = "main" /\ lastOp' = "update") => UNCHANGED gameFields]_vars

\* C2 witness: update has run on a finished game whose head had a free cell in
\* front of it (the direction was changed after the end), and nothing moved.
C2_Witness ==
    /\ game_over
    /\ lastOp = "update"
    /\ LET nh == Translate(Head(snake), direction) IN
       ~OnBorder(nh) /\ nh \notin Cells(snake) /\ nh \notin obstacles

\* C3: an advance() on an alive game that does not collide lengthens the snake
\* by exactly 1 and raises the score by exactly 1 if the new head is the food
\* cell, and leaves both unchanged otherwise; the rest of that advance()
\* (food spawn, level up, regeneration) changes neither.
C3_GrowthLaw ==
    [][/\ (AdvanceAlive /\ ~game_over') =>
            IF Translate(Head(snake), direction) = food
            THEN Len(snake') = Len(snake) + 1 /\ score' = score + 1
            ELSE Len(snake') = Len(snake) /\ score' = score
       /\ pc # "main" => UNCHANGED <<snake, score>>]_vars

\* C3 witness: the first food has been eaten and advance() has returned.
C3_Witness ==
    pc = "main" /\ lastOp = "update" /\ score = 1 /\ Len(snake) = 4

\* C4: every snake cell, the food cell and every obstacle cell lies strictly
\* inside the border: 1 <= x <= width-2 and 1 <= y <= height-2.
C4_WallInvariant ==
    \A p \in Cells(snake) \cup {food} \cup obstacles : Interior(p)

\* C4 witness: obstacles have been generated and the head is next to a wall.
C4_Witness ==
    /\ pc = "main"
    /\ obstacles # {}
    /\ \E d \in Directions : OnBorder(Translate(Head(snake), d))

\* C5: while the game is alive the snake cells are pairwise distinct.
C5_SelfDistinct ==
    ~game_over => \A i, j \in 1..Len(snake) : i # j => snake[i] # snake[j]

\* C5 witness: an alive snake whose head is next to a body cell other than
\* its neck, so that one step could make it overlap.
C5_Witness ==
    /\ ~game_over
    /\ pc = "main"
    /\ \E d \in Directions, i \in 3..Len(snake) :
          Translate(Head(snake), d) = snake[i]

\* C6: a direction request that is the exact opposite of the current direction
\* leaves the direction unchanged; any other request sets the direction to the
\* requested value at once.
C6_NoReversal ==
    [][(pc = "main" /\ lastOp' = "key") =>
        direction' = IF lastKey' = Opposite(direction)
                     THEN direction ELSE lastKey']_vars

\* C6 witness: the last key asked for the opposite of the direction, which is
\* still in place.
C6_Witness ==
    lastOp = "key" /\ lastKey = Opposite(direction)

\* C7: whatever direction requests arrive between two advance() calls, the
\* second advance() does not move the head opposite to the move of the first,
\* that is, not onto the neck (the second cell of the snake).
C7_NeverStepsBack ==
    [][AdvanceAlive => Translate(Head(snake), direction) # snake[2]]_vars

\* C8: between operations level = 1 + (score div 5), and generate_level has run
\* once per level gained: a score reaching a multiple of 5 raises the level
\* exactly once and regenerates the obstacles exactly once, nothing else does.
C8_LevelFromScore ==
    pc \in {"main", "exit", "generate_level"} =>
        /\ level = 1 + (score \div 5)
        /\ regens = score \div 5

\* C8 witness: the fifth food has been eaten and advance() has returned.
C8_Witness ==
    pc = "main" /\ score = 5 /\ level = 2 /\ regens = 1

\* C9 (as stated): after a regeneration the obstacle set has at most
\* level*3+5 cells.
C9_CellCountAtMostSegmentCount ==
    (regens > 0 /\ pc # "generate_level") =>
        Cardinality(obstacles) <= level * 3 + 5

\* C9 (amended): level*3+5 counts the segments, not the cells: each round of
\* the loop adds at most 7 cells and there are at most level*3+5 rounds, so
\* the obstacle set has at most 7*(level*3+5) cells after a regeneration.
C9_SevenCellsPerSegment ==
    /\ gen_i <= level * 3 + 5
    /\ Cardinality(obstacles) <= 7 * gen_i

\* C9 witness: a regeneration has run all its level*3+5 rounds and left more
\* cells than that.
C9_Witness ==
    /\ pc = "main"
    /\ gen_i = level * 3 + 5
    /\ Cardinality(obstacles) > gen_i

\* C10: between operations the food cell is not a snake cell and not an
\* obstacle cell (inside advance() it is one only between the push of the new
\* head onto the food and the end of the food spawn).
C10_FoodDistinct ==
    pc # "spawn_food" => food \notin Cells(snake) /\ food \notin obstacles

\* C10 witness: a tick has eaten food and regenerated the obstacles.
C10_Witness ==
    pc = "main" /\ lastOp = "update" /\ score = 5 /\ obstacles # {}

\* C11: a fatal advance() changes nothing but the flag: snake (cells and
\* order), food, obstacles, direction, score and level stay as they were, and
\* update returns to the driver loop.
C11_FatalChangesOnlyFlag ==
    [][(AdvanceAlive /\ game_over') =>
        /\ UNCHANGED <<snake, food, obstacles, direction, score, level>>
        /\ pc' = "main"]_vars

\* C11 witness: a snake that has grown was stopped by update in front of a wall.
C11_Witness ==
    /\ game_over
    /\ lastOp = "update"
    /\ Len(snake) > 3
    /\ OnBorder(Translate(Head(snake), direction))

\* C13: a non-fatal advance() that does not eat turns the snake into the new
\* head (the old head translated one cell in the current direction) followed
\* by the old snake without its last cell.
C13_MovementLaw ==
    [][(/\ AdvanceAlive
        /\ ~game_over'
        /\ Translate(Head(snake), direction) # food) =>
        snake' = <<Translate(Head(snake), direction)>>
                    \o SubSeq(snake, 1, Len(snake) - 1)]_vars

\* C13 witness: one tick to the right from the start without food: the three
\* cells are one column further right, the length is still 3.
C13_Witness ==
    /\ lastOp = "update"
    /\ ~game_over
    /\ score = 0
    /\ snake = [i \in 1..3 |-> Point((width \div 2) + 2 - i, height \div 2)]

\* C16: an advance() whose new head is the cell the tail is on ends the game,
\* although a tick that does not eat would have moved the tail away.
C16_TailCellIsFatal ==
    [][(AdvanceAlive /\ Translate(Head(snake), direction) = snake[Len(snake)])
        => game_over']_vars

\* C16 witness: update has stopped a snake whose head faces its own tail, with
\* no food on that cell.
C16_Witness ==
    /\ game_over
    /\ lastOp = "update"
    /\ Translate(Head(snake), direction) = snake[Len(snake)]
    /\ food # snake[Len(snake)]

\* C17: once the game is over the driver calls update no more and no key
\* changes a field of the game.
C17_DriverIdleAfterGameOver ==
    [][(game_over /\ pc = "main") =>
        (lastOp' # "update" /\ UNCHANGED gameFields)]_vars

\* C19: the snake has 3 + score cells in every state, alive or not.
C19_LengthIsThreePlusScore == Len(snake) = 3 + score

\* C19 witness: a game that ended after five foods.
C19_Witness == game_over /\ score = 5 /\ pc = "main"

\* C20: no snake cell is an obstacle cell, in every state, alive or not.
C20_SnakeOffObstacles == Cells(snake) \cap obstacles = {}

\* C20 witness: a live snake has moved on after a regeneration and its head
\* is next to an obstacle.
C20_Witness ==
    /\ ~game_over
    /\ pc = "main"
    /\ since_gen >= 1
    /\ \E d \in Directions : Translate(Head(snake), d) \in obstacles

\* Manhattan distance of two cells
Manhattan(p, q) ==
    (IF p.x >= q.x THEN p.x - q.x ELSE q.x - p.x)
    + (IF p.y >= q.y THEN p.y - q.y ELSE q.y - p.y)

\* the four checks of a cell, as the claim lists them
PassesChecks(p, s, f) ==
    /\ Interior(p)
    /\ p \notin Cells(s)
    /\ p # f
    /\ Manhattan(p, Head(s)) > 3

\* a run of n cells from cell c, to the right or downwards
Run(horizontal, n, c) ==
    {Point(c.x + (IF horizontal THEN k ELSE 0),
           c.y + (IF horizontal THEN 0 ELSE k)) : k \in 0..(n - 1)}

\* C14: while generate_level runs and when it returns, every obstacle cell is
\* inside the border, off the snake (new head included), off the new food and
\* more than 3 away from the head; and each round adds exactly the cells of
\* one run of 3 to 7 cells that pass these checks, the others are skipped.
C14_OnlyCheckedCellsPlaced ==
    [][pc = "generate_level" =>
        /\ \A p \in obstacles' : PassesChecks(p, snake', food')
        /\ \E horizontal \in BOOLEAN, n \in 3..7 :
           \E cx \in 2..(width - 3), cy \in 2..(height - 3) :
              obstacles' = obstacles \cup
                 {p \in Run(horizontal, n, Point(cx, cy)) :
                     PassesChecks(p, snake, food)}]_vars

\* C14 witness: generate_level has returned with one or two cells; every run
\* has at least three, so only part of a run was placed.
C14_Witness ==
    /\ pc = "main"
    /\ lastOp = "update"
    /\ since_gen = 0
    /\ Cardinality(obstacles) \in {1, 2}

\* C18: none of the first three advance() calls after a regeneration moves the
\* head onto an obstacle, whatever keys are pressed in between.
C18_ProximityBuffer ==
    [][(AdvanceAlive /\ regens > 0 /\ since_gen < 3) =>
        Translate(Head(snake), direction) \notin obstacles]_vars

\* C18 witness: three advance() calls after a regeneration the snake is alive
\* with an obstacle right in front of its head.
C18_Witness ==
    /\ ~game_over
    /\ pc = "main"
    /\ regens > 0
    /\ since_gen = 3
    /\ Translate(Head(snake), direction) \in obstacles

\* the interior cells that are neither a snake cell nor an obstacle cell
FreeCells ==
    {p \in {Point(px, py) : px \in 1..(width - 2), py \in 1..(height - 2)} :
        p \notin Cells(snake) /\ p \notin obstacles}

\* C12: if some interior cell is free, spawn_food ends (fair sampling) and the
\* food is then on a free cell; if none is free, spawn_food never ends, so
\* the advance() that ate never returns.
C12_SpawnFoodTermination ==
    /\ (pc = "spawn_food" /\ FreeCells # {}) ~> (pc = "level_check")
    /\ [][pc = "spawn_food" =>
            IF FreeCells = {}
            THEN pc' = "spawn_food" /\ food' = food
            ELSE pc' # "spawn_food" => (pc' = "level_check" /\ food' \in FreeCells)]_vars

\* C12 witness: spawn_food has been called with no free cell left.
C12_Witness == pc = "spawn_food" /\ FreeCells = {}

\* C15: the obstacle set is empty at level 1; it changes only inside an
\* advance() that levels up, which first empties it and then fills it round
\* by round; every other step leaves it as it is.
C15_ObstaclesOnlyByLevelUp ==
    /\ [](level = 1 => obstacles = {})
    /\ [][/\ obstacles' # obstacles =>
                \/ pc = "level_check" /\ level' = level + 1 /\ obstacles' = {}
                \/ pc = "generate_level" /\ obstacles \subseteq obstacles'
          /\ (pc = "level_check" /\ level' # level) => obstacles' = {}]_vars

\* C15 witness: the second level up has emptied the set and its regeneration
\* is about to start.
C15_Witness ==
    pc = "generate_level" /\ level = 3 /\ gen_i = 0 /\ obstacles = {}

====
